---------------------------- MODULE Spec2Model ----------------------------
(***************************************************************************)
(* A model of meta_description_extractor.py: a batch tool that reads URLs  *)
(* from a CSV file, fetches each page, extracts the first description meta *)
(* tag and writes (URL, description) rows to an output CSV.                *)
(*                                                                         *)
(* Text is a sequence of one-character strings.  The library calls the     *)
(* program makes (csv.reader, csv.writer, str.strip, str.lower,            *)
(* urllib.request.Request, bytes.decode) are modelled by what they compute *)
(* on that text.                                                           *)
(***************************************************************************)
EXTENDS Integers, Sequences, FiniteSets, TLC

VARIABLES
    pc,               \* position of the run
    inputExists,      \* input_path.exists()
    inputFile,        \* text of the input CSV
    outputWritable,   \* whether output_path can be opened for writing
    urls,             \* process_urls: urls
    idx,              \* process_urls: number of URLs whose iteration is finished
    html,             \* process_urls: html of the current iteration
    description,      \* process_urls: description of the current iteration
    results,          \* process_urls: results
    outputFile,       \* text of the output CSV, NoFile until it is opened for writing
    readBack,         \* rows a csv.reader yields when re-reading outputFile
    exitStatus,       \* exit status of main, Running until it terminates
    stderr,           \* message main printed on standard error
    raised,           \* exception that escaped, and the function it escaped from
    lastNet,          \* what the network answered to the current fetch
    fetchLog,         \* history: URLs handed to fetch_html, in order
    fetchOutcome,     \* history: "content", "none" or "raised" for each fetch
    extractLog,       \* history: iterations in which extract_meta_description ran
    writeCount,       \* history: number of calls of write_results
    resultsAtFetch,   \* history: len(results) when each fetch was issued
    doc,              \* parser run: the start tags fed to the parser
    pos,              \* parser run: number of start tags handled so far
    meta_description, \* MetaDescriptionParser.meta_description
    frozenAt          \* history: meta_description right after the first match

vars == <<pc, inputExists, inputFile, outputWritable, urls, idx, html, description,
          results, outputFile, readBack, exitStatus, stderr, raised, lastNet,
          fetchLog, fetchOutcome, extractLog, writeCount, resultsAtFetch,
          doc, pos, meta_description, frozenAt>>

---------------------------------------------------------------------------
(* Bounds of the model.                                                    *)
MaxRows == 3
MaxLines == 3
MaxTags == 3
MaxAttrs == 2
MaxFieldLen == 1
MaxRecords == 2

---------------------------------------------------------------------------
(* Values.                                                                 *)
None == <<"<None>">>
NoHtml == <<[kind |-> "None"]>>
NoFile == <<"<no file>">>
NoExc == "NoExc"
NotRaised == [exc |-> NoExc, from |-> "", message |-> ""]
Running == "Running"
REPLACEMENT == "U+FFFD"

(* Program constants.                                                      *)
HEADER == << <<"U", "R", "L">>,
             <<"M", "e", "t", "a", " ", "D", "e", "s", "c", "r", "i", "p", "t", "i", "o", "n">> >>
NO_URLS_MESSAGE == "The input CSV contains no URLs."
NOT_FOUND_MESSAGE == "Input file not found. Please add it to the repository root."

---------------------------------------------------------------------------
(* str.lower and str.strip.                                                *)
UpperLetters == <<"A", "B", "C", "D", "E", "F", "G", "H", "I", "J", "K", "L", "M",
                  "N", "O", "P", "Q", "R", "S", "T", "U", "V", "W", "X", "Y", "Z">>
LowerLetters == <<"a", "b", "c", "d", "e", "f", "g", "h", "i", "j", "k", "l", "m",
                  "n", "o", "p", "q", "r", "s", "t", "u", "v", "w", "x", "y", "z">>

LowerChar(c) ==
    IF \E i \in DOMAIN UpperLetters : UpperLetters[i] = c
    THEN LowerLetters[CHOOSE i \in DOMAIN UpperLetters : UpperLetters[i] = c]
    ELSE c

Lower(s) == [i \in DOMAIN s |-> LowerChar(s[i])]

IsSpace(c) == c \in {" ", "\t", "\n", "\r"}

RECURSIVE LStrip(_)
LStrip(s) ==
    IF s # <<>> /\ IsSpace(Head(s)) THEN LStrip(Tail(s)) ELSE s

RECURSIVE RStrip(_)
RStrip(s) ==
    IF s # <<>> /\ IsSpace(s[Len(s)]) THEN RStrip(SubSeq(s, 1, Len(s) - 1)) ELSE s

Strip(s) == RStrip(LStrip(s))

(* All texts over an alphabet up to a length.                              *)
Texts(alphabet, n) == UNION {[1..k -> alphabet] : k \in 0..n}

(* All sequences over a set up to a length.                                *)
SeqsUpTo(S, n) == UNION {[1..k -> S] : k \in 0..n}

RECURSIVE Concat(_)
Concat(ss) == IF ss = <<>> THEN <<>> ELSE Head(ss) \o Concat(Tail(ss))

---------------------------------------------------------------------------
(* The csv module, excel dialect: delimiter ",", quotechar """, doubled    *)
(* quotes, minimal quoting, line terminator CR LF, not strict.             *)
DELIMITER == ","
QUOTECHAR == "\""
LINETERMINATOR == <<"\r", "\n">>
EOL == "<EOL>"

(* csv.writer: a field is quoted when it holds the delimiter, the quote    *)
(* character or a character of the line terminator; quotes are doubled.    *)
NeedsQuote(f) ==
    \E i \in DOMAIN f :
        f[i] = DELIMITER \/ f[i] = QUOTECHAR
        \/ \E k \in DOMAIN LINETERMINATOR : LINETERMINATOR[k] = f[i]

(* QuoteField with the quote character written once instead of doubled.   *)
QuoteFieldNoDoubling(f) == <<QUOTECHAR>> \o f \o <<QUOTECHAR>>

QuoteField(f) ==
    <<QUOTECHAR>>
    \o Concat([i \in DOMAIN f |-> IF f[i] = QUOTECHAR THEN <<QUOTECHAR, QUOTECHAR>>
                                                      ELSE <<f[i]>>])
    \o <<QUOTECHAR>>

WriteField(f, onlyField) ==
    IF NeedsQuote(f) \/ (onlyField /\ f = <<>>) THEN QuoteField(f) ELSE f

RECURSIVE JoinFields(_, _)
JoinFields(row, n) ==
    IF row = <<>> THEN <<>>
    ELSE WriteField(Head(row), n = 1)
         \o (IF Len(row) > 1 THEN <<DELIMITER>> ELSE <<>>)
         \o JoinFields(Tail(row), n)

writerow(row) == JoinFields(row, Len(row)) \o LINETERMINATOR

(* The lines a text file opened with newline="" iterates over: split after *)
(* LF, CR LF or a lone CR, the terminator kept.                            *)
RECURSIVE SplitLines(_, _)
SplitLines(text, cur) ==
    IF text = <<>> THEN (IF cur = <<>> THEN <<>> ELSE <<cur>>)
    ELSE LET c == Head(text)
             rest == Tail(text)
         IN  IF c = "\n" THEN <<Append(cur, c)>> \o SplitLines(rest, <<>>)
             ELSE IF c = "\r" THEN
                 IF rest # <<>> /\ Head(rest) = "\n"
                 THEN <<cur \o <<"\r", "\n">> >> \o SplitLines(Tail(rest), <<>>)
                 ELSE <<Append(cur, c)>> \o SplitLines(rest, <<>>)
             ELSE SplitLines(rest, Append(cur, c))

(* csv.reader: the parser state is [state, field, fields, error].          *)
ReaderReset == [state |-> "START_RECORD", field |-> <<>>, fields |-> <<>>, error |-> FALSE]

parse_save_field(r) == [r EXCEPT !.fields = Append(@, r.field), !.field = <<>>]

parse_add_char(r, c) == [r EXCEPT !.field = Append(@, c)]

AfterNewline(c) == IF c = EOL THEN "START_RECORD" ELSE "EAT_CRNL"

StartField(r, c) ==
    IF c \in {"\n", "\r", EOL} THEN [parse_save_field(r) EXCEPT !.state = AfterNewline(c)]
    ELSE IF c = QUOTECHAR THEN [r EXCEPT !.state = "IN_QUOTED_FIELD"]
    ELSE IF c = DELIMITER THEN [parse_save_field(r) EXCEPT !.state = "START_FIELD"]
    ELSE [parse_add_char(r, c) EXCEPT !.state = "IN_FIELD"]

parse_process_char(r, c) ==
    CASE r.state = "START_RECORD" ->
            IF c = EOL THEN r
            ELSE IF c \in {"\n", "\r"} THEN [r EXCEPT !.state = "EAT_CRNL"]
            ELSE StartField(r, c)
      [] r.state = "START_FIELD" -> StartField(r, c)
      [] r.state = "IN_FIELD" ->
            IF c \in {"\n", "\r", EOL} THEN [parse_save_field(r) EXCEPT !.state = AfterNewline(c)]
            ELSE IF c = DELIMITER THEN [parse_save_field(r) EXCEPT !.state = "START_FIELD"]
            ELSE parse_add_char(r, c)
      [] r.state = "IN_QUOTED_FIELD" ->
            IF c = EOL THEN r
            ELSE IF c = QUOTECHAR THEN [r EXCEPT !.state = "QUOTE_IN_QUOTED_FIELD"]
            ELSE parse_add_char(r, c)
      [] r.state = "QUOTE_IN_QUOTED_FIELD" ->
            IF c = QUOTECHAR THEN [parse_add_char(r, c) EXCEPT !.state = "IN_QUOTED_FIELD"]
            ELSE IF c = DELIMITER THEN [parse_save_field(r) EXCEPT !.state = "START_FIELD"]
            ELSE IF c \in {"\n", "\r", EOL}
                 THEN [parse_save_field(r) EXCEPT !.state = AfterNewline(c)]
            ELSE [parse_add_char(r, c) EXCEPT !.state = "IN_FIELD"]
      [] r.state = "EAT_CRNL" ->
            IF c \in {"\n", "\r"} THEN r
            ELSE IF c = EOL THEN [r EXCEPT !.state = "START_RECORD"]
            ELSE [r EXCEPT !.error = TRUE]

RECURSIVE ParseLine(_, _)
ParseLine(r, line) ==
    IF line = <<>> THEN parse_process_char(r, EOL)
    ELSE ParseLine(parse_process_char(r, Head(line)), Tail(line))

(* Reader.__next__ repeated to exhaustion: the rows the reader yields.     *)
RECURSIVE ReadRows(_, _)
ReadRows(r, lines) ==
    IF lines = <<>> THEN
        IF r.state # "START_RECORD" /\ (r.field # <<>> \/ r.state = "IN_QUOTED_FIELD")
        THEN <<parse_save_field(r).fields>>
        ELSE <<>>
    ELSE LET r2 == ParseLine(r, Head(lines))
         IN  IF r2.state = "START_RECORD"
             THEN <<r2.fields>> \o ReadRows(ReaderReset, Tail(lines))
             ELSE ReadRows(r2, Tail(lines))

csv_reader(text) == ReadRows(ReaderReset, SplitLines(text, <<>>))

---------------------------------------------------------------------------
(* MetaDescriptionParser.                                                  *)
T_meta == <<"m", "e", "t", "a">>
T_name == <<"n", "a", "m", "e">>
T_property == <<"p", "r", "o", "p", "e", "r", "t", "y">>
T_content == <<"c", "o", "n", "t", "e", "n", "t">>
T_description == <<"d", "e", "s", "c", "r", "i", "p", "t", "i", "o", "n">>
T_og_description == <<"o", "g", ":">> \o T_description
T_twitter_description == <<"t", "w", "i", "t", "t", "e", "r", ":">> \o T_description
T_url == <<"u", "r", "l">>

(* attributes.get(key, ""), attributes being                               *)
(* {name.lower(): (value or "") for name, value in attrs}: a repeated      *)
(* attribute keeps its last value.                                         *)
AttributesGet(attrs, key) ==
    LET at == {i \in DOMAIN attrs : Lower(attrs[i][1]) = key}
        last == CHOOSE i \in at : \A j \in at : j <= i
    IN  IF at = {} THEN <<>>
        ELSE IF attrs[last][2] = None THEN <<>> ELSE attrs[last][2]

(* handle_starttag with the sentinel tested for truth instead of against   *)
(* None: an empty first match is overwritten by a later matching tag.      *)
handle_starttag_truthy(md, tag, attrs) ==
    IF md # None /\ md # <<>> THEN md
    ELSE IF Lower(tag) # T_meta THEN md
    ELSE LET name_value == Lower(AttributesGet(attrs, T_name))
             property_value == Lower(AttributesGet(attrs, T_property))
         IN  IF name_value = T_description
                \/ property_value \in {T_og_description, T_twitter_description}
             THEN Strip(AttributesGet(attrs, T_content))
             ELSE md

(* handle_starttag with the values of name and property compared as they   *)
(* are written, not in lower case.                                         *)
handle_starttag_case_sensitive(md, tag, attrs) ==
    IF md # None THEN md
    ELSE IF Lower(tag) # T_meta THEN md
    ELSE LET name_value == AttributesGet(attrs, T_name)
             property_value == AttributesGet(attrs, T_property)
         IN  IF name_value = T_description
                \/ property_value \in {T_og_description, T_twitter_description}
             THEN Strip(AttributesGet(attrs, T_content))
             ELSE md

(* handle_starttag: the value of self.meta_description after the call.     *)
handle_starttag(md, tag, attrs) ==
    IF md # None THEN md
    ELSE IF Lower(tag) # T_meta THEN md
    ELSE LET name_value == Lower(AttributesGet(attrs, T_name))
             property_value == Lower(AttributesGet(attrs, T_property))
         IN  IF name_value = T_description
                \/ property_value \in {T_og_description, T_twitter_description}
             THEN Strip(AttributesGet(attrs, T_content))
             ELSE md

(* HTMLParser.feed: the start tags of the text, in document order.         *)
StartTags(text) == SelectSeq(text, LAMBDA item : item.kind = "tag")

RECURSIVE Feed(_, _)
Feed(md, tags) ==
    IF tags = <<>> THEN md
    ELSE Feed(handle_starttag(md, Head(tags).tag, Head(tags).attrs), Tail(tags))

OrEmpty(md) == IF md = None \/ md = <<>> THEN <<>> ELSE md

extract_meta_description(text) == OrEmpty(Feed(None, StartTags(text)))

---------------------------------------------------------------------------
(* read_urls.                                                              *)
(* The loop of read_urls with the header recognised in the first row only. *)
RECURSIVE ReadUrlsLoopFirstRowHeader(_, _, _)
ReadUrlsLoopFirstRowHeader(rows, acc, first) ==
    IF rows = <<>> THEN acc
    ELSE LET row == Head(rows)
         IN  IF row = <<>> THEN ReadUrlsLoopFirstRowHeader(Tail(rows), acc, FALSE)
             ELSE LET url == Strip(row[1])
                  IN  IF first /\ Lower(url) = T_url
                      THEN ReadUrlsLoopFirstRowHeader(Tail(rows), acc, FALSE)
                      ELSE IF url # <<>>
                      THEN ReadUrlsLoopFirstRowHeader(Tail(rows), Append(acc, url), FALSE)
                      ELSE ReadUrlsLoopFirstRowHeader(Tail(rows), acc, FALSE)

read_urls_first_row_header(text) ==
    ReadUrlsLoopFirstRowHeader(csv_reader(text), <<>>, TRUE)

RECURSIVE ReadUrlsLoop(_, _)
ReadUrlsLoop(rows, acc) ==
    IF rows = <<>> THEN acc
    ELSE LET row == Head(rows)
         IN  IF row = <<>> THEN ReadUrlsLoop(Tail(rows), acc)
             ELSE LET url == Strip(row[1])
                  IN  IF Lower(url) = T_url THEN ReadUrlsLoop(Tail(rows), acc)
                      ELSE IF url # <<>> THEN ReadUrlsLoop(Tail(rows), Append(acc, url))
                      ELSE ReadUrlsLoop(Tail(rows), acc)

read_urls(text) == ReadUrlsLoop(csv_reader(text), <<>>)

---------------------------------------------------------------------------
(* fetch_html.                                                             *)

(* Request(url): the constructor raises ValueError ("unknown url type")    *)
(* unless the URL starts with a scheme, one or more characters other than  *)
(* "/" and ":" followed by ":".                                            *)
HasScheme(url) ==
    \E i \in 2..Len(url) :
        url[i] = ":" /\ \A j \in 1..(i - 1) : url[j] \notin {"/", ":"}

(* bytes.decode(charset, errors="replace"): LookupError for a label that   *)
(* names no codec; otherwise every byte sequence decodes, an invalid one   *)
(* to the replacement character.                                           *)
KnownCodecs == {"utf-8", "latin-1"}

DecodeItem(item, charset) ==
    IF item.kind # "bytes" THEN item
    ELSE [kind |-> "text",
          c |-> IF item.utf8 \/ charset # "utf-8" THEN "x" ELSE REPLACEMENT]

Decode(body, charset) == [i \in DOMAIN body |-> DecodeItem(body[i], charset)]

CaughtByFetch == {"HTTPError", "URLError", "ValueError"}

(* The result of fetch_html(url) when the network answers net:             *)
(* [exc, value], exc the exception that escapes the call (NoExc: none).    *)
fetch_html(url, net) ==
    IF ~HasScheme(url) THEN [exc |-> "ValueError", value |-> NoHtml]
    ELSE IF net.outcome \in CaughtByFetch THEN [exc |-> NoExc, value |-> NoHtml]
    ELSE IF net.outcome # "ok" THEN [exc |-> net.outcome, value |-> NoHtml]
    ELSE LET charset == IF net.charset = "" THEN "utf-8" ELSE net.charset
         IN  IF charset \notin KnownCodecs THEN [exc |-> "LookupError", value |-> NoHtml]
             ELSE [exc |-> NoExc, value |-> Decode(net.body, charset)]

---------------------------------------------------------------------------
(* write_results.                                                          *)
RECURSIVE WriteRows(_)
WriteRows(rs) ==
    IF rs = <<>> THEN <<>>
    ELSE writerow(<<Head(rs).url, Head(rs).description>>) \o WriteRows(Tail(rs))

write_results(rs) == writerow(HEADER) \o WriteRows(rs)

---------------------------------------------------------------------------
(* Inputs.                                                                 *)
Tag(tag, attrs) == [kind |-> "tag", tag |-> tag, attrs |-> attrs]

TagDesc == Tag(T_meta, << <<T_name, T_description>>, <<T_content, <<"H", "i">> >> >>)
TagOg == Tag(T_meta, << <<T_property, T_og_description>>, <<T_content, <<" ", "O", "g", " ">> >> >>)
TagTwitter == Tag(T_meta, << <<T_content, <<"T", "w">> >>, <<T_property, T_twitter_description>> >>)
TagEmptyContent == Tag(T_meta, << <<T_name, T_description>>, <<T_content, <<" ">> >> >>)
TagNoContent == Tag(T_meta, << <<T_name, T_description>> >>)
TagKeywords == Tag(T_meta, << <<T_name, <<"k">> >>, <<T_content, <<"K">> >> >>)
TagNotMeta == Tag(<<"p">>, << <<T_name, T_description>>, <<T_content, <<"P">> >> >>)
TagUpper == Tag(<<"M", "E", "T", "A">>,
                << <<<<"N", "A", "M", "E">>, <<"D", "e", "s", "c", "r", "i", "p", "t", "i", "o", "n">> >>,
                   <<<<"C", "o", "n", "t", "e", "n", "t">>, <<"U", "p">> >> >>)

TagSet == {TagDesc, TagOg, TagTwitter, TagEmptyContent, TagNoContent,
           TagKeywords, TagNotMeta, TagUpper}

(* Tags for the case checks: every spelling of the tag name, the attribute *)
(* names and the values, with up to MaxAttrs attributes.                   *)
TagNames == {T_meta, <<"M", "e", "T", "A">>, <<"p">>}
KeyNames == {T_name, <<"N", "a", "m", "e">>, T_property, <<"P", "R", "O", "P", "E", "R", "T", "Y">>}
KeyValues == {None, T_description, <<"D", "E", "S", "C", "R", "I", "P", "T", "I", "O", "N">>,
              <<"O", "g", ":">> \o T_description, T_twitter_description}
ContentNames == {T_content, <<"C", "O", "N", "T", "E", "N", "T">>}
ContentValues == {None, <<" ", "H", "i", " ">>}
AttrPairs == (KeyNames \X KeyValues) \cup (ContentNames \X ContentValues)
CaseTags == {Tag(t, a) : t \in TagNames, a \in SeqsUpTo(AttrPairs, MaxAttrs)}

(* Response bodies: markup and bytes, some of them not valid UTF-8.        *)
BadBytes == [kind |-> "bytes", utf8 |-> FALSE]
Bodies == {<<>>, <<BadBytes, TagDesc>>, <<TagOg, BadBytes, TagDesc>>,
           <<TagNoContent, TagDesc>>, <<TagKeywords>>}
Charsets == {"", "latin-1", "x-unknown"}
NoNet == [outcome |-> "", charset |-> "", body |-> <<>>]
NetAnswers ==
    {[outcome |-> o, charset |-> "", body |-> <<>>] :
        o \in {"HTTPError", "URLError", "ValueError", "TimeoutError"}}
    \cup {[outcome |-> "ok", charset |-> c, body |-> b] : c \in Charsets, b \in Bodies}

(* Input files: lines ended by LF.                                         *)
FileOf(ls) == Concat([i \in DOMAIN ls |-> ls[i] \o <<"\n">>])
MainLines == {<<>>, T_url, <<" ", "a", ":", "b">>, <<"b">>}
MainFiles == {FileOf(ls) : ls \in SeqsUpTo(MainLines, MaxRows)}

---------------------------------------------------------------------------
(* The program: main and process_urls.                                     *)
Init ==
    /\ pc = "main"
    /\ inputExists \in BOOLEAN
    /\ inputFile \in (IF inputExists THEN MainFiles ELSE {NoFile})
    /\ outputWritable \in BOOLEAN
    /\ urls = <<>>
    /\ idx = 0
    /\ html = NoHtml
    /\ description = <<>>
    /\ results = <<>>
    /\ outputFile = NoFile
    /\ readBack = <<>>
    /\ exitStatus = Running
    /\ stderr = ""
    /\ raised = NotRaised
    /\ lastNet = NoNet
    /\ fetchLog = <<>>
    /\ fetchOutcome = <<>>
    /\ extractLog = <<>>
    /\ writeCount = 0
    /\ resultsAtFetch = <<>>
    /\ doc = <<>>
    /\ pos = 0
    /\ meta_description = None
    /\ frozenAt = None

parserVars == <<doc, pos, meta_description, frozenAt>>
historyVars == <<fetchLog, fetchOutcome, extractLog, writeCount, resultsAtFetch>>
loopVars == <<urls, idx, html, description, results, lastNet>>
envVars == <<inputExists, inputFile, outputWritable>>

(* main, lines 146-151: the input file must exist.                         *)
MainStart ==
    /\ pc = "main"
    /\ IF inputExists
       THEN /\ pc' = "process_urls"
            /\ UNCHANGED <<exitStatus, stderr>>
       ELSE /\ pc' = "exited"
            /\ exitStatus' = 1
            /\ stderr' = NOT_FOUND_MESSAGE
    /\ UNCHANGED <<envVars, loopVars, historyVars, parserVars, outputFile, readBack, raised>>

(* ReadInput without the check for an empty URL list.                      *)
ReadInputNoCheck ==
    /\ pc = "process_urls"
    /\ urls' = read_urls(inputFile)
    /\ pc' = "loop"
    /\ results' = <<>>
    /\ UNCHANGED <<envVars, idx, html, description, lastNet, historyVars, parserVars,
                   outputFile, readBack, exitStatus, raised, stderr>>

(* process_urls, lines 97-101.                                             *)
ReadInput ==
    /\ pc = "process_urls"
    /\ urls' = read_urls(inputFile)
    /\ IF urls' = <<>>
       THEN /\ raised' = [exc |-> "ValueError", from |-> "process_urls",
                            message |-> NO_URLS_MESSAGE]
            /\ pc' = "except"
       ELSE /\ pc' = "loop"
            /\ UNCHANGED raised
    /\ results' = <<>>
    /\ UNCHANGED <<envVars, idx, html, description, lastNet, historyVars, parserVars,
                   outputFile, readBack, exitStatus, stderr>>

(* process_urls, lines 102-104: the next URL is fetched.                   *)
Fetch ==
    /\ pc = "loop"
    /\ idx < Len(urls)
    /\ \E net \in NetAnswers :
          LET url == urls[idx + 1]
              r == fetch_html(url, net)
          IN  /\ lastNet' = IF HasScheme(url) THEN [net EXCEPT !.body = <<>>] ELSE NoNet
              /\ fetchLog' = Append(fetchLog, url)
              /\ resultsAtFetch' = Append(resultsAtFetch, Len(results))
              /\ IF r.exc # NoExc
                 THEN /\ raised' = [exc |-> r.exc, from |-> "fetch_html", message |-> r.exc]
                      /\ fetchOutcome' = Append(fetchOutcome, "raised")
                      /\ pc' = "except"
                      /\ html' = html
                 ELSE /\ html' = r.value
                      /\ fetchOutcome' =
                            Append(fetchOutcome, IF r.value = NoHtml THEN "none" ELSE "content")
                      /\ pc' = "extract"
                      /\ UNCHANGED raised
    /\ UNCHANGED <<envVars, urls, idx, description, results, extractLog, writeCount,
                   parserVars, outputFile, readBack, exitStatus, stderr>>

(* Extract with the extraction run whatever the fetch returned.            *)
ExtractAlways ==
    /\ pc = "extract"
    /\ description' = extract_meta_description(html)
    /\ extractLog' = Append(extractLog, idx + 1)
    /\ pc' = "append"
    /\ UNCHANGED <<envVars, urls, idx, html, results, lastNet, fetchLog, fetchOutcome,
                   writeCount, resultsAtFetch, parserVars, outputFile, readBack,
                   exitStatus, stderr, raised>>

(* process_urls, line 105.                                                 *)
Extract ==
    /\ pc = "extract"
    /\ IF html # NoHtml
       THEN /\ description' = extract_meta_description(html)
            /\ extractLog' = Append(extractLog, idx + 1)
       ELSE /\ description' = <<>>
            /\ UNCHANGED extractLog
    /\ pc' = "append"
    /\ UNCHANGED <<envVars, urls, idx, html, results, lastNet, fetchLog, fetchOutcome,
                   writeCount, resultsAtFetch, parserVars, outputFile, readBack,
                   exitStatus, stderr, raised>>

(* AppendResult with the record of a failed fetch left out.                *)
AppendResultUnlessFailed ==
    /\ pc = "append"
    /\ results' = IF html = NoHtml THEN results
                  ELSE Append(results, [url |-> urls[idx + 1], description |-> description])
    /\ idx' = idx + 1
    /\ pc' = "loop"
    /\ UNCHANGED <<envVars, urls, html, description, lastNet, historyVars, parserVars,
                   outputFile, readBack, exitStatus, stderr, raised>>

(* process_urls, line 106.                                                 *)
AppendResult ==
    /\ pc = "append"
    /\ results' = Append(results, [url |-> urls[idx + 1], description |-> description])
    /\ idx' = idx + 1
    /\ pc' = "loop"
    /\ UNCHANGED <<envVars, urls, html, description, lastNet, historyVars, parserVars,
                   outputFile, readBack, exitStatus, stderr, raised>>

(* process_urls, line 108: write_results, once the loop is over.           *)
WriteResults ==
    /\ pc = "loop"
    /\ idx = Len(urls)
    /\ writeCount' = writeCount + 1
    /\ IF outputWritable
       THEN /\ outputFile' = write_results(results)
            /\ pc' = "return"
            /\ UNCHANGED raised
       ELSE /\ raised' = [exc |-> "OSError", from |-> "write_results", message |-> "OSError"]
            /\ pc' = "except"
            /\ UNCHANGED outputFile
    /\ UNCHANGED <<envVars, loopVars, fetchLog, fetchOutcome, extractLog, resultsAtFetch,
                   parserVars, readBack, exitStatus, stderr>>

(* Except with the exception swallowed: main returns normally.             *)
ExceptSwallowed ==
    /\ pc = "except"
    /\ exitStatus' = 0
    /\ pc' = "exited"
    /\ UNCHANGED <<envVars, loopVars, historyVars, parserVars, outputFile, readBack,
                   stderr, raised>>

(* main, lines 160-161: sys.exit(str(exc)).                                *)
Except ==
    /\ pc = "except"
    /\ exitStatus' = 1
    /\ stderr' = raised.message
    /\ pc' = "exited"
    /\ UNCHANGED <<envVars, loopVars, historyVars, parserVars, outputFile, readBack, raised>>

(* main returns, and the interpreter exits with status zero.               *)
Return ==
    /\ pc = "return"
    /\ exitStatus' = 0
    /\ pc' = "exited"
    /\ UNCHANGED <<envVars, loopVars, historyVars, parserVars, outputFile, readBack,
                   stderr, raised>>

Next ==
    \/ MainStart
    \/ ReadInput
    \/ Fetch
    \/ Extract
    \/ AppendResult
    \/ WriteResults
    \/ Except
    \/ Return

Spec == Init /\ [][Next]_vars

---------------------------------------------------------------------------
(* read_urls on its own, applied to every input file of the bound.         *)
ReaderLines ==
    {<<>>, T_url, <<" ", "U", "R", "L", " ">>, <<"U", "r", "l", ",", "x">>,
     <<"a", ":", "b">>, <<" ", "b", " ">>, <<" ">>, <<" ", ",", "x">>,
     <<",", "b">>, <<"\"", "b", ",", "c", "\"", ",", "x">>}
ReaderFiles == {FileOf(ls) : ls \in SeqsUpTo(ReaderLines, MaxLines)}

InitReader ==
    /\ pc = "read_urls"
    /\ inputExists = TRUE
    /\ inputFile \in ReaderFiles
    /\ outputWritable = TRUE
    /\ urls = <<>>
    /\ idx = 0
    /\ html = NoHtml
    /\ description = <<>>
    /\ results = <<>>
    /\ outputFile = NoFile
    /\ readBack = <<>>
    /\ exitStatus = Running
    /\ stderr = ""
    /\ raised = NotRaised
    /\ lastNet = NoNet
    /\ fetchLog = <<>>
    /\ fetchOutcome = <<>>
    /\ extractLog = <<>>
    /\ writeCount = 0
    /\ resultsAtFetch = <<>>
    /\ doc = <<>>
    /\ pos = 0
    /\ meta_description = None
    /\ frozenAt = None

ReadUrls ==
    /\ pc = "read_urls"
    /\ urls' = read_urls(inputFile)
    /\ pc' = "read"
    /\ UNCHANGED <<envVars, idx, html, description, results, lastNet, historyVars,
                   parserVars, outputFile, readBack, exitStatus, stderr, raised>>

NextReader == ReadUrls

SpecReader == InitReader /\ [][NextReader]_vars

---------------------------------------------------------------------------
(* The parser on its own: start tags are handled one at a time, then       *)
(* extract_meta_description returns.                                       *)
InitParserWith(docs) ==
    /\ pc = "feed"
    /\ inputExists = TRUE
    /\ inputFile = <<>>
    /\ outputWritable = TRUE
    /\ urls = <<>>
    /\ idx = 0
    /\ html = NoHtml
    /\ description = <<>>
    /\ results = <<>>
    /\ outputFile = NoFile
    /\ readBack = <<>>
    /\ exitStatus = Running
    /\ stderr = ""
    /\ raised = NotRaised
    /\ lastNet = NoNet
    /\ fetchLog = <<>>
    /\ fetchOutcome = <<>>
    /\ extractLog = <<>>
    /\ writeCount = 0
    /\ resultsAtFetch = <<>>
    /\ doc \in docs
    /\ pos = 0
    /\ meta_description = None
    /\ frozenAt = None

HandleStartTag ==
    /\ pc = "feed"
    /\ pos < Len(doc)
    /\ meta_description' = handle_starttag(meta_description, doc[pos + 1].tag, doc[pos + 1].attrs)
    /\ frozenAt' = IF meta_description = None THEN meta_description' ELSE frozenAt
    /\ pos' = pos + 1
    /\ UNCHANGED <<pc, envVars, loopVars, historyVars, doc, outputFile, readBack,
                   exitStatus, stderr, raised>>

ExtractReturn ==
    /\ pc = "feed"
    /\ pos = Len(doc)
    /\ description' = OrEmpty(meta_description)
    /\ pc' = "parsed"
    /\ UNCHANGED <<envVars, urls, idx, html, results, lastNet, historyVars, parserVars,
                   outputFile, readBack, exitStatus, stderr, raised>>

NextParser ==
    \/ HandleStartTag
    \/ ExtractReturn

InitParser == InitParserWith(SeqsUpTo(TagSet, MaxTags))

SpecParser == InitParser /\ [][NextParser]_vars

InitTag == InitParserWith({<<t>> : t \in CaseTags})

SpecTag == InitTag /\ [][NextParser]_vars

---------------------------------------------------------------------------
(* write_results on its own, and a csv.reader re-reading what it wrote.    *)
CsvChars == {"a", ",", "\"", "\n", "\r"}
CsvRecords ==
    [url : {<<"a", ":", "b">>}, description : Texts(CsvChars, MaxFieldLen)]
    \cup {[url |-> <<"a", ":", ",", "\"">>, description |-> <<>>]}

InitCsv ==
    /\ pc = "loop"
    /\ inputExists = TRUE
    /\ inputFile = <<>>
    /\ outputWritable = TRUE
    /\ results \in SeqsUpTo(CsvRecords, MaxRecords)
    /\ urls = [i \in DOMAIN results |-> results[i].url]
    /\ idx = Len(urls)
    /\ html = NoHtml
    /\ description = <<>>
    /\ outputFile = NoFile
    /\ readBack = <<>>
    /\ exitStatus = Running
    /\ stderr = ""
    /\ raised = NotRaised
    /\ lastNet = NoNet
    /\ fetchLog = <<>>
    /\ fetchOutcome = <<>>
    /\ extractLog = <<>>
    /\ writeCount = 0
    /\ resultsAtFetch = <<>>
    /\ doc = <<>>
    /\ pos = 0
    /\ meta_description = None
    /\ frozenAt = None

ReRead ==
    /\ pc = "return"
    /\ readBack' = csv_reader(outputFile)
    /\ pc' = "reread"
    /\ UNCHANGED <<envVars, loopVars, historyVars, parserVars, outputFile,
                   exitStatus, stderr, raised>>

NextCsv ==
    \/ WriteResults
    \/ ReRead

SpecCsv == InitCsv /\ [][NextCsv]_vars

---------------------------------------------------------------------------
(* Reference notions the properties are stated with.                       *)

(* The rows of the input file that carry a URL, and the URL of each.       *)
IsUrlRow(row) ==
    /\ row # <<>>
    /\ Strip(row[1]) # <<>>
    /\ Lower(Strip(row[1])) # T_url

ExpectedUrls(rows) ==
    LET kept == SelectSeq(rows, IsUrlRow)
    IN  [i \in DOMAIN kept |-> Strip(kept[i][1])]

(* The value of attribute key of a tag, names compared without regard to   *)
(* case: <<>> when the attribute is absent or has no value.                *)
RECURSIVE RefAttr(_, _)
RefAttr(attrs, key) ==
    IF attrs = <<>> THEN <<>>
    ELSE LET a == attrs[Len(attrs)]
         IN  IF Lower(a[1]) = key THEN (IF a[2] = None THEN <<>> ELSE a[2])
             ELSE RefAttr(SubSeq(attrs, 1, Len(attrs) - 1), key)

(* The tag with its name, its attribute names and the values of name and   *)
(* property in lower case; every other value as it is.                     *)
FoldCase(t) ==
    [t EXCEPT !.tag = Lower(t.tag),
              !.attrs = [i \in DOMAIN t.attrs |->
                  LET n == Lower(t.attrs[i][1])
                      v == t.attrs[i][2]
                  IN  <<n, IF n \in {T_name, T_property} /\ v # None THEN Lower(v) ELSE v>>]]

(* A description tag, every comparison exact.                              *)
IsDescriptionTag(t) ==
    /\ t.tag = T_meta
    /\ \/ RefAttr(t.attrs, T_name) = T_description
       \/ RefAttr(t.attrs, T_property) = T_og_description
       \/ RefAttr(t.attrs, T_property) = T_twitter_description

Matching(tags) == {i \in DOMAIN tags : IsDescriptionTag(FoldCase(tags[i]))}

FirstOf(S) == CHOOSE i \in S : \A j \in S : i <= j

(* The trimmed content of the first matching tag, None when none matches.  *)
FirstMatchContent(tags) ==
    IF Matching(tags) = {} THEN None
    ELSE Strip(RefAttr(tags[FirstOf(Matching(tags))].attrs, T_content))

RowsOf(rs) == [i \in DOMAIN rs |-> <<rs[i].url, rs[i].description>>]

IsPrefix(a, b) == Len(a) <= Len(b) /\ a = SubSeq(b, 1, Len(a))

NoUrlsInInput == inputExists /\ ExpectedUrls(csv_reader(inputFile)) = <<>>

---------------------------------------------------------------------------
C2_FetchFailureNeverRaises ==
    ~(raised.from = "fetch_html" /\ raised.exc \in {"ValueError", "TimeoutError"})

(* C3: the parser's result is the trimmed content of the first matching    *)
(* tag among those handled, it is never changed by a later tag, and        *)
(* extract_meta_description returns it, or the empty string when no tag    *)
(* matches.                                                                *)
C3_FirstMatchWins ==
    /\ meta_description = FirstMatchContent(SubSeq(doc, 1, pos))
    /\ frozenAt # None => meta_description = frozenAt
    /\ pc = "parsed" =>
          description = IF Matching(doc) = {} THEN <<>> ELSE FirstMatchContent(doc)

C3_Witness ==
    /\ pc = "parsed"
    /\ Len(doc) = 3
    /\ doc[1] = TagKeywords
    /\ doc[2] = TagNoContent
    /\ doc[3] = TagDesc
    /\ description = <<>>

(* C4: when the input yields no URL, process_urls fails with the "no URLs" *)
(* error, no fetch is issued and the output file is neither opened nor     *)
(* written.                                                                *)
C4_NoUrlsNoOutput ==
    NoUrlsInInput =>
        /\ fetchLog = <<>>
        /\ writeCount = 0
        /\ outputFile = NoFile
        /\ pc \notin {"main", "process_urls"} =>
              raised = [exc |-> "ValueError", from |-> "process_urls", message |-> NO_URLS_MESSAGE]
        /\ pc = "exited" => (exitStatus = 1 /\ stderr = NO_URLS_MESSAGE)

C4_Witness ==
    /\ pc = "exited"
    /\ inputFile = FileOf(<<T_url>>)
    /\ exitStatus = 1
    /\ stderr = NO_URLS_MESSAGE
    /\ outputFile = NoFile

C6_ReadUrls ==
    pc = "read" => urls = ExpectedUrls(csv_reader(inputFile))

C6_Witness ==
    /\ pc = "read"
    /\ inputFile = FileOf(<< <<" ", "b", " ">>, <<"U", "r", "l", ",", "x">>, <<" ", ",", "x">> >>)
    /\ urls = << <<"b">> >>

(* C7: re-reading what write_results wrote yields the header row and then  *)
(* the same (URL, description) pairs in the same order.                    *)
C7_RoundTrip ==
    pc = "reread" => readBack = <<HEADER>> \o RowsOf(results)

C7_Witness ==
    /\ pc = "reread"
    /\ Len(results) = 2
    /\ results[1].description = <<"\"">>
    /\ results[2].url = <<"a", ":", ",", "\"">>
    /\ results[2].description = <<>>
    /\ readBack = <<HEADER>> \o RowsOf(results)

(* C8: on a successful response fetch_html returns text, whatever the body *)
(* and the charset label.                                                  *)
C8_DecodingNeverFails ==
    (fetchOutcome # <<>> /\ lastNet.outcome = "ok") =>
        fetchOutcome[Len(fetchOutcome)] = "content"

(* C9: whether a tag matches does not depend on the letter case of the tag *)
(* name, of the attribute names or of the values of name and property; the *)
(* content is returned trimmed with its case preserved, empty when absent. *)
C9_CaseInsensitive ==
    pos = 1 =>
        LET t == doc[1]
        IN  /\ (meta_description # None) <=> IsDescriptionTag(FoldCase(t))
            /\ meta_description # None =>
                  meta_description = Strip(RefAttr(t.attrs, T_content))

C9_Witness ==
    /\ pos = 1
    /\ doc[1].tag = <<"M", "e", "T", "A">>
    /\ doc[1].attrs = << <<<<"P", "R", "O", "P", "E", "R", "T", "Y">>, <<"O", "g", ":">> \o T_description>>,
                         <<<<"C", "O", "N", "T", "E", "N", "T">>, <<" ", "H", "i", " ">> >> >>
    /\ meta_description = <<"H", "i">>

(* C10: URLs are handled one at a time in input order: each is fetched at  *)
(* most once and, when process_urls completes, exactly once; a fetch is    *)
(* issued only after the record of the previous URL is appended;           *)
(* extraction runs only for a URL whose fetch returned content; the output *)
(* is written once, and only after every URL has its record.               *)
C10_Sequential ==
    /\ IsPrefix(fetchLog, urls)
    /\ Len(fetchLog) = Len(fetchOutcome)
    /\ \A i \in DOMAIN resultsAtFetch : resultsAtFetch[i] = i - 1
    /\ \A k \in DOMAIN extractLog :
          /\ fetchOutcome[extractLog[k]] = "content"
          /\ \A j \in DOMAIN extractLog : extractLog[j] = extractLog[k] => j = k
    /\ pc \in {"append", "loop"} =>
          \A i \in DOMAIN fetchOutcome :
              fetchOutcome[i] = "content" <=> \E k \in DOMAIN extractLog : extractLog[k] = i
    /\ writeCount <= 1
    /\ writeCount = 1 => (Len(results) = Len(urls) /\ fetchLog = urls)
    /\ outputFile # NoFile => writeCount = 1
    /\ pc = "return" => (writeCount = 1 /\ outputFile # NoFile)

C10_Witness ==
    /\ pc = "exited"
    /\ exitStatus = 0
    /\ Len(urls) = 3
    /\ fetchLog = urls
    /\ fetchOutcome = <<"content", "none", "content">>
    /\ extractLog = <<1, 3>>
    /\ writeCount = 1

===========================================================================
